---- MODULE Spec2Model ----
(***************************************************************************)
(* Model of fd-mcp (src/fd_mcp/server.py): the tool dispatcher call_tool,  *)
(* the command builders and the runners run_fd, run_fd_with_content_search *)
(* and run_fd_exec.  A tool call is a sequence of steps separated by the   *)
(* blocking subprocess.run calls; the outcome of every spawned process     *)
(* (exit, timeout, spawn failure) is chosen by the environment.            *)
(*                                                                         *)
(* Text is modelled as a sequence of segments, one per piece the code      *)
(* joins or appends; the empty sequence is the empty string.  The output   *)
(* of the discovery process is a sequence of lines, "" being an empty      *)
(* line; path names are never whitespace-only.                             *)
(***************************************************************************)
EXTENDS Integers, Sequences, FiniteSets, TLC

VARIABLES
    FD_CMD,      \* module global: detected fd binary, or None
    RG_CMD,      \* module global: detected rg binary, or None
    tools,       \* names returned by the last list_tools call
    program,     \* the server process: where main is, its exit status, stderr
    pc,          \* "idle", "discovery", "content", "sub", "returned", "raised"
    name,        \* call_tool: name
    arguments,   \* call_tool: arguments (a dict: function on the keys supplied)
    fd_result,   \* result / fd_result of the discovery process, or NoResult
    caught,      \* exception the runner's try block caught, or NoException
    rg_cmd,      \* run_fd_with_content_search: rg_cmd
    files,       \* run_fd_with_content_search / run_fd_exec: files
    results,     \* run_fd_exec: results
    spawned,     \* subprocess.run calls made by the current call, in order
    response,    \* text of the TextContent returned by call_tool
    exception,   \* exception that propagated out of call_tool, or NoException
    \* benchmark/generate_files.py, a program of its own:
    step,        \* where its main is: "start", "setup", "writing", "verify",
                 \* "done", "exit_1"
    file_count,  \* main: file_count (args.num_files)
    test_data,   \* the test_data directory: whether it exists, its sub-directories
                 \* and its files
    counts,      \* main: the 17 category counts, by the name of their variable
    remaining,   \* main: remaining
    category,    \* number of the category whose loop is running (1..17)
    index,       \* that loop's i
    count,       \* main: count
    actual_count \* main: actual_count, the number of files find reports

genvars == <<step, file_count, test_data, counts, remaining, category, index,
             count, actual_count>>
srvvars == <<FD_CMD, RG_CMD, tools, program, pc, name, arguments, fd_result, caught,
             rg_cmd, files, results, spawned, response, exception>>
vars == <<srvvars, genvars>>

(***************************************************************************)
(* Bounds of the model.                                                    *)
(***************************************************************************)
\* longest discovery output, in lines
MaxLines == 3
\* largest cap (max_results, max_files) a caller passes explicitly
MaxCap == 2

(***************************************************************************)
(* Program constants.                                                      *)
(***************************************************************************)
\* timeout= of the discovery and content-search processes
ProcessTimeout == 30
\* timeout= of one fd_exec sub-command
SubCommandTimeout == 10
\* default of max_results (fd_search, fd_search_content) and max_files
DefaultMaxResults == 100
\* default of max_results in fd_recent_files
DefaultRecentMaxResults == 50
\* default of hours in fd_recent_files
DefaultHours == 24
\* the number of seconds the literal timeout message of run_fd and of
\* run_fd_with_content_search names
TimeoutMessageSecs == 30

None == "None"
NoException == "NoException"
EmptyDict == [k \in {} |-> TRUE]
NoResult == [done |-> FALSE, stdout |-> <<>>, stderr |-> ""]
Completed(raw, stderr) == [done |-> TRUE, stdout |-> raw, stderr |-> stderr]

\* arguments.get(key, default)
Get(d, key, default) == IF key \in DOMAIN d THEN d[key] ELSE default

\* arguments.get(key) for an integer option: {} is None, {v} is the value v
GetOpt(d, key) == IF key \in DOMAIN d THEN {d[key]} ELSE {}

\* str(n) for the integers the model uses
Str(n) ==
    CASE n = -1 -> "-1" [] n = 0 -> "0" [] n = 1 -> "1" [] n = 2 -> "2"
      [] n = 3 -> "3" [] n = 4 -> "4" [] n = 24 -> "24"

\* seq[:k] of Python: a negative k counts from the end
Slice(seq, k) ==
    IF k >= 0
    THEN SubSeq(seq, 1, IF k < Len(seq) THEN k ELSE Len(seq))
    ELSE SubSeq(seq, 1, IF Len(seq) + k > 0 THEN Len(seq) + k ELSE 0)

(***************************************************************************)
(* Text segments.  k names the piece, s its strings, n and m its numbers.  *)
(***************************************************************************)
Seg(k, s, n, m) == [k |-> k, s |-> s, n |-> n, m |-> m]

\* one element of "\n".join(lines)
Line(l) == Seg("line", <<l>>, 0, 0)
\* f"\n\n... and {n} more results (truncated)"
MoreNote(n) == Seg("more", <<>>, n, 0)
\* f"\n\nWarnings: {stderr}"
Warnings(stderr) == Seg("warnings", <<stderr>>, 0, 0)
\* a string literal of the source
Lit(str) == Seg("lit", <<str>>, 0, 0)
\* "Error: Command timed out after 30 seconds" (cmd = <<>>), and
\* f"Error: {e}" for e = TimeoutExpired(cmd, secs), whose str is
\* "Command '{cmd}' timed out after {secs} seconds"
TimedOut(cmd, secs) == Seg("timed_out", cmd, secs, 0)
\* f"Error: {e}" for any other exception e
ErrorText(msg) == Seg("error", <<msg>>, 0, 0)
\* rg_result.stdout.strip()
RgOutput(out) == Seg("rg_stdout", <<out>>, 0, 0)
\* f"\n\n... searched {max_results} of {len(files)} files (truncated)"
SearchedNote(n, m) == Seg("searched", <<>>, n, m)
\* f"Error: {rg_result.stderr}"
RgError(stderr) == Seg("rg_stderr", <<stderr>>, 0, 0)
\* f"{file}:\n{result.stdout}{result.stderr}"
FileOutput(file, out, err) == Seg("file_output", <<file, out, err>>, 0, 0)
\* f"\n\n... processed {max_files} files (limit reached)"
LimitNote(n) == Seg("limit", <<>>, n, 0)
\* f"Command executed on {len(files)} files (no output)"
ExecutedNote(n) == Seg("executed", <<>>, n, 0)
\* f"Found {count} matches"
FoundText(n) == Seg("found", <<>>, n, 0)
\* f"Unknown tool: {name}"
UnknownTool(n) == Seg("unknown", <<n>>, 0, 0)

NoFdMessage == "fd/fdfind not found in PATH"
\* what main prints to stderr before sys.exit(1)
InstallFdMessage == "Error: fd/fdfind not found. Please install fd-find."
NoRgMessage == "Error: ripgrep (rg) not found. Please install ripgrep for content search."
\* str of the TypeError subprocess.run raises for a None in the argument list
NoneInCmdMessage == "expected str, bytes or os.PathLike object, not NoneType"
\* str of the OSError raised when the process cannot be started
SpawnFailure == "[Errno 2] No such file or directory"

\* "\n".join(lines)
RECURSIVE Join(_)
Join(lines) ==
    IF lines = <<>> THEN <<>> ELSE <<Line(Head(lines))>> \o Join(Tail(lines))

\* stdout.strip().split("\n") if stdout.strip() else []: strip removes the
\* leading and trailing empty lines, split keeps the inner ones
RECURSIVE StripLeft(_)
StripLeft(raw) ==
    IF raw # <<>> /\ Head(raw) = "" THEN StripLeft(Tail(raw)) ELSE raw
RECURSIVE StripRight(_)
StripRight(raw) ==
    IF raw # <<>> /\ raw[Len(raw)] = ""
    THEN StripRight(SubSeq(raw, 1, Len(raw) - 1))
    ELSE raw
StripSplit(raw) == StripRight(StripLeft(raw))

\* [l for l in lines if l]
RECURSIVE NonEmpty(_)
NonEmpty(lines) ==
    IF lines = <<>> THEN <<>>
    ELSE (IF Head(lines) # "" THEN <<Head(lines)>> ELSE <<>>) \o NonEmpty(Tail(lines))

\* command.replace("{}", file), the command a sequence of pieces
Replace(command, file) ==
    [j \in 1..Len(command) |-> IF command[j] = "{}" THEN file ELSE command[j]]

(***************************************************************************)
(* Command builders.                                                       *)
(***************************************************************************)
\* cmd.append(flag) when cond
Flag(cond, flag) == IF cond THEN <<flag>> ELSE <<>>
\* cmd.extend([flag, value]) when the string option is truthy
Opt(value, flag) == IF value # None /\ value # "" THEN <<flag, value>> ELSE <<>>

\* mutant of DepthOpt: "if max_depth:", which takes a depth of 0 for None
DepthOptTruthy(max_depth) ==
    IF max_depth # {} /\ max_depth # {0}
    THEN <<"--max-depth", Str(CHOOSE d \in max_depth : TRUE)>>
    ELSE <<>>

\* cmd.extend(["--max-depth", str(max_depth)]) when max_depth is not None
DepthOpt(max_depth) ==
    IF max_depth # {}
    THEN <<"--max-depth", Str(CHOOSE d \in max_depth : TRUE)>>
    ELSE <<>>

build_fd_command(pattern, path, file_type, extension, hidden, no_ignore, max_depth, exclude, case_sensitive, absolute_path) ==
    IF FD_CMD = None
    THEN [raised |-> TRUE, cmd |-> <<>>]
    ELSE [raised |-> FALSE,
          cmd |-> <<FD_CMD>>
                  \o Flag(hidden, "--hidden")
                  \o Flag(no_ignore, "--no-ignore")
                  \o Flag(case_sensitive, "--case-sensitive")
                  \o Flag(absolute_path, "--absolute-path")
                  \o Opt(file_type, "--type")
                  \o Opt(extension, "--extension")
                  \o DepthOpt(max_depth)
                  \o Opt(exclude, "--exclude")
                  \o (IF pattern # "" THEN <<pattern>> ELSE <<>>)
                  \o <<path>>]

\* run_fd_with_content_search: fd_cmd
content_fd_cmd(file_pattern, path, extension, file_type, hidden, no_ignore) ==
    <<FD_CMD>>
    \o Flag(hidden, "--hidden")
    \o Flag(no_ignore, "--no-ignore")
    \o Opt(file_type, "--type")
    \o Opt(extension, "--extension")
    \o (IF file_pattern # "" THEN <<file_pattern>> ELSE <<>>)
    \o <<path>>

\* run_fd_with_content_search: rg_cmd, before the files are added
content_rg_cmd(search_pattern, case_sensitive, context_lines) ==
    <<RG_CMD>>
    \o Flag(~case_sensitive, "--ignore-case")
    \o (IF context_lines > 0 THEN <<"--context", Str(context_lines)>> ELSE <<>>)
    \o <<"--line-number", "--heading", "--color=never">>
    \o <<search_pattern>>

\* find_recent_files: cmd
recent_cmd(path, hours, file_type, extension) ==
    <<FD_CMD, "--changed-within", Str(hours) \o "h">>
    \o Opt(file_type, "--type")
    \o Opt(extension, "--extension")
    \o <<path>>

(***************************************************************************)
(* The runners, as functions of the outcome of the processes they await.   *)
(***************************************************************************)
\* run_fd, the process having exited with stdout raw and stderr
run_fd_output(raw, stderr, max_results) ==
    LET lines == StripSplit(raw)
        output == IF Len(lines) > max_results
                  THEN Join(Slice(lines, max_results))
                       \o <<MoreNote(Len(lines) - max_results)>>
                  ELSE Join(lines)
        warned == IF stderr # "" THEN output \o <<Warnings(stderr)>> ELSE output
    IN  IF warned # <<>> THEN warned ELSE <<Lit("No matches found.")>>

\* run_fd_with_content_search, rg having exited
content_output(returncode, out, err, found, max_results) ==
    IF returncode = 0
    THEN LET output == (IF out # "" THEN <<RgOutput(out)>> ELSE <<>>)
                       \o (IF Len(found) > max_results
                           THEN <<SearchedNote(max_results, Len(found))>>
                           ELSE <<>>)
         IN  IF output # <<>> THEN output ELSE <<Lit("No content matches found.")>>
    ELSE IF returncode = 1
    THEN <<Lit("No content matches found in the files.")>>
    ELSE <<RgError(err)>>

\* run_fd_exec, after the loop over files
exec_output(res, processed, max_files) ==
    IF res # <<>>
    THEN res \o (IF Len(processed) = max_files THEN <<LimitNote(max_files)>> ELSE <<>>)
    ELSE <<ExecutedNote(Len(processed))>>

\* mutant of count_output: the empty lines are counted too
count_output_unfiltered(raw) == <<FoundText(Len(StripSplit(raw)))>>

\* fd_count branch of call_tool, the process having exited
count_output(raw) == <<FoundText(Len(NonEmpty(StripSplit(raw))))>>

\* mutant of list_tools: the list is not filtered by RG_CMD
list_tools_unfiltered ==
    {"fd_search", "fd_search_content", "fd_exec", "fd_recent_files", "fd_count"}

\* list_tools
list_tools ==
    LET all == {"fd_search", "fd_search_content", "fd_exec", "fd_recent_files",
                "fd_count"}
    IN  IF RG_CMD = None THEN {t \in all : t # "fd_search_content"} ELSE all

(***************************************************************************)
(* Inputs: tool names, argument dicts, process outputs.                    *)
(***************************************************************************)
ToolNames == {"fd_search", "fd_search_content", "fd_exec", "fd_recent_files",
              "fd_count", "fd_unknown"}

Caps == -1..MaxCap
Commands == {<<"wc -l ", "{}">>, <<"cp ", "{}", " ", "{}", ".bak">>}

\* the dicts that hold key with one of vals, or lack it
With(key, vals) == {EmptyDict} \cup {key :> v : v \in vals}
Merge(A, B) == {a @@ b : a \in A, b \in B}

ArgsFor(n) ==
    CASE n = "fd_search" ->
            Merge(With("max_results", Caps), With("extension", {"py"}))
      [] n = "fd_search_content" ->
            Merge(With("search_pattern", {"TODO"}), With("max_results", Caps))
      [] n = "fd_exec" ->
            Merge(With("command", Commands), With("max_files", Caps))
      [] n = "fd_recent_files" ->
            Merge(With("max_results", Caps), With("hours", {1}))
      [] n = "fd_count" ->
            Merge(With("pattern", {"test"}), With("hidden", {TRUE}))
      [] OTHER -> With("path", {"src"})

RECURSIVE SeqsUpTo(_, _)
SeqsUpTo(S, n) ==
    IF n = 0 THEN {<<>>}
    ELSE LET shorter == SeqsUpTo(S, n - 1)
         IN  shorter \cup {Append(q, x) : q \in shorter, x \in S}

\* what a discovery process may write: up to MaxLines lines
Stdouts == SeqsUpTo({"", "a", "b"}, MaxLines)
Stderrs == {"", "fd: error"}
\* what one fd_exec sub-command may write
SubOutputs == {<<"", "">>, <<"out", "">>, <<"", "err">>}

(***************************************************************************)
(* The state machine.                                                      *)
(***************************************************************************)
\* the server process: at is "loaded" (the module is imported, main has not
\* run; the handlers can be called directly), "serving" (main is in
\* run_server) or "exited", with the exit status and what went to stderr
Program(at, status, stderr) == [at |-> at, status |-> status, stderr |-> stderr]
Loaded == Program("loaded", 0, "")
Serving == Program("serving", 0, "")

\* a path under test_data: f"{dir}/{stem}_{i}.{ext}"
Path(dir, stem, i, ext) == [dir |-> dir, stem |-> stem, i |-> i, ext |-> ext]
\* the test_data directory
Tree(exists, dirs, paths) == [exists |-> exists, dirs |-> dirs, files |-> paths]
NoTree == Tree(FALSE, {}, {})

\* the names of the 17 count variables, in the order of their loops
Categories ==
    <<"py_src_files", "py_helpers", "test_files", "js_components", "js_utils",
      "json_config", "yaml_config", "docs", "scripts", "py_lib", "js_lib",
      "examples", "txt_files", "env_files", "readme_files", "legacy_files",
      "integration_tests">>
NoCounts == [c \in {Categories[j] : j \in DOMAIN Categories} |-> 0]

\* generate_files.py has not been started
GeneratorNotRun ==
    /\ step = "start"
    /\ file_count = 0
    /\ test_data = NoTree
    /\ counts = NoCounts
    /\ remaining = 0
    /\ category = 0
    /\ index = 0
    /\ count = 0
    /\ actual_count = 0

Init ==
    /\ FD_CMD \in {None, "fd"}
    /\ RG_CMD \in {None, "rg"}
    /\ GeneratorNotRun
    /\ tools = {}
    /\ program = Loaded
    /\ pc = "idle"
    /\ name = ""
    /\ arguments = EmptyDict
    /\ fd_result = NoResult
    /\ caught = NoException
    /\ rg_cmd = <<>>
    /\ files = <<>>
    /\ results = <<>>
    /\ spawned = <<>>
    /\ response = <<>>
    /\ exception = NoException

Process(cmd, timeout) == [cmd |-> cmd, timeout |-> timeout]

\* call_tool returns [TextContent(type="text", text=text)]
Return(text) ==
    /\ pc' = "returned"
    /\ response' = text
    /\ exception' = NoException
    /\ caught' = NoException

\* the runner's except clause turns the exception exc into the text it returns
Catch(exc, text) ==
    /\ pc' = "returned"
    /\ response' = text
    /\ exception' = NoException
    /\ caught' = exc

\* an exception leaves call_tool
Raise(exc) ==
    /\ pc' = "raised"
    /\ response' = <<>>
    /\ exception' = exc
    /\ caught' = NoException

\* call_tool blocks in subprocess.run
Await(stage) ==
    /\ pc' = stage
    /\ response' = <<>>
    /\ exception' = NoException
    /\ caught' = NoException

\* list_tools handler
ListTools ==
    /\ pc = "idle"
    /\ program.at # "exited"
    /\ tools' = list_tools
    /\ UNCHANGED <<genvars, FD_CMD, RG_CMD, program, pc, name, arguments, fd_result, caught,
                   rg_cmd, files, results, spawned, response, exception>>

\* call_tool(n, a), up to its first subprocess.run, its return or its raise
CallTool(n, a) ==
    /\ pc = "idle"
    /\ program.at # "exited"
    /\ name' = n
    /\ arguments' = a
    /\ UNCHANGED <<genvars, FD_CMD, RG_CMD, tools, program, fd_result, files, results>>
    /\ CASE n = "fd_search" ->
              LET b == build_fd_command(
                           Get(a, "pattern", ""), Get(a, "path", "."),
                           Get(a, "type", None), Get(a, "extension", None),
                           Get(a, "hidden", FALSE), Get(a, "no_ignore", FALSE),
                           GetOpt(a, "max_depth"), Get(a, "exclude", None),
                           Get(a, "case_sensitive", FALSE),
                           Get(a, "absolute_path", FALSE))
              IN  /\ rg_cmd' = <<>>
                  /\ IF b.raised
                     THEN Raise("RuntimeError") /\ spawned' = <<>>
                     ELSE Await("discovery")
                          /\ spawned' = <<Process(b.cmd, ProcessTimeout)>>
         [] n = "fd_search_content" ->
              IF "search_pattern" \notin DOMAIN a
              THEN Raise("KeyError") /\ spawned' = <<>> /\ rg_cmd' = <<>>
              ELSE IF RG_CMD = None
              THEN Return(<<Lit(NoRgMessage)>>) /\ spawned' = <<>> /\ rg_cmd' = <<>>
              ELSE /\ rg_cmd' = content_rg_cmd(a["search_pattern"],
                                               Get(a, "case_sensitive", FALSE),
                                               Get(a, "context_lines", 0))
                   /\ IF FD_CMD = None
                      THEN Catch("TypeError", <<ErrorText(NoneInCmdMessage)>>)
                      /\ spawned' = <<>>
                      ELSE Await("discovery")
                           /\ spawned' = <<Process(
                                  content_fd_cmd(Get(a, "file_pattern", ""),
                                                 Get(a, "path", "."),
                                                 Get(a, "extension", None),
                                                 Get(a, "type", None),
                                                 Get(a, "hidden", FALSE),
                                                 Get(a, "no_ignore", FALSE)),
                                  ProcessTimeout)>>
         [] n = "fd_exec" ->
              /\ rg_cmd' = <<>>
              /\ IF "command" \notin DOMAIN a
                 THEN Raise("KeyError") /\ spawned' = <<>>
                 ELSE LET b == build_fd_command(
                                  Get(a, "pattern", ""), Get(a, "path", "."),
                                  Get(a, "type", None), Get(a, "extension", None),
                                  Get(a, "hidden", FALSE), Get(a, "no_ignore", FALSE),
                                  {}, None, FALSE, FALSE)
                      IN  IF b.raised
                          THEN Raise("RuntimeError") /\ spawned' = <<>>
                          ELSE Await("discovery")
                               /\ spawned' = <<Process(b.cmd, ProcessTimeout)>>
         [] n = "fd_recent_files" ->
              /\ rg_cmd' = <<>>
              /\ IF FD_CMD = None
                 THEN Catch("TypeError", <<ErrorText(NoneInCmdMessage)>>)
                      /\ spawned' = <<>>
                 ELSE Await("discovery")
                      /\ spawned' = <<Process(
                             recent_cmd(Get(a, "path", "."),
                                        Get(a, "hours", DefaultHours),
                                        Get(a, "type", None),
                                        Get(a, "extension", None)),
                             ProcessTimeout)>>
         [] n = "fd_count" ->
              LET b == build_fd_command(
                           Get(a, "pattern", ""), Get(a, "path", "."),
                           Get(a, "type", None), Get(a, "extension", None),
                           Get(a, "hidden", FALSE), FALSE, {}, None, FALSE, FALSE)
              IN  /\ rg_cmd' = <<>>
                  /\ IF b.raised
                     THEN Raise("RuntimeError") /\ spawned' = <<>>
                     ELSE Await("discovery")
                          /\ spawned' = <<Process(b.cmd, ProcessTimeout)>>
         [] OTHER ->
              /\ rg_cmd' = <<>>
              /\ Return(<<UnknownTool(n)>>)
              /\ spawned' = <<>>

\* the process the call is waiting for
Running == spawned[Len(spawned)]

\* fd_exec: the sub-command of the k-th file
SubCommand(k) ==
    Process(Replace(arguments["command"], files[k]), SubCommandTimeout)

\* the discovery process exits, having written raw and stderr
DiscoveryExit(raw, stderr) ==
    /\ pc = "discovery"
    /\ fd_result' = Completed(raw, stderr)
    /\ UNCHANGED <<genvars, FD_CMD, RG_CMD, tools, program, name, arguments, results>>
    /\ CASE name \in {"fd_search", "fd_recent_files"} ->
              /\ Return(run_fd_output(raw, stderr,
                     Get(arguments, "max_results",
                         IF name = "fd_search" THEN DefaultMaxResults
                         ELSE DefaultRecentMaxResults)))
              /\ UNCHANGED <<rg_cmd, files, spawned>>
         [] name = "fd_search_content" ->
              IF StripSplit(raw) = <<>>
              THEN /\ Return(<<Lit("No files found matching the file pattern.")>>)
                   /\ UNCHANGED <<rg_cmd, files, spawned>>
              ELSE /\ files' = StripSplit(raw)
                   /\ rg_cmd' = rg_cmd \o Slice(files',
                          Get(arguments, "max_results", DefaultMaxResults))
                   /\ Await("content")
                   /\ spawned' = Append(spawned, Process(rg_cmd', ProcessTimeout))
         [] name = "fd_exec" ->
              IF StripSplit(raw) = <<>>
              THEN /\ Return(<<Lit("No files found.")>>)
                   /\ UNCHANGED <<rg_cmd, files, spawned>>
              ELSE /\ files' = Slice(StripSplit(raw),
                          Get(arguments, "max_files", DefaultMaxResults))
                   /\ UNCHANGED rg_cmd
                   /\ IF files' = <<>>
                      THEN /\ Return(exec_output(<<>>, files',
                                  Get(arguments, "max_files", DefaultMaxResults)))
                           /\ UNCHANGED spawned
                      ELSE /\ Await("sub")
                           /\ spawned' = Append(spawned, Process(
                                  Replace(arguments["command"], files'[1]),
                                  SubCommandTimeout))
         [] name = "fd_count" ->
              /\ Return(count_output(raw))
              /\ UNCHANGED <<rg_cmd, files, spawned>>

\* mutant of timeout_text: every handler returns the literal message
timeout_text_literal == <<TimedOut(<<>>, TimeoutMessageSecs)>>

\* mutant of timeout_text: the outputs collected so far come before the error
timeout_text_after_outputs == results \o <<TimedOut(Running.cmd, Running.timeout)>>

\* what the handler of the awaited process's TimeoutExpired returns
timeout_text ==
    IF name \in {"fd_search", "fd_recent_files", "fd_search_content"}
    THEN <<TimedOut(<<>>, TimeoutMessageSecs)>>
    ELSE <<TimedOut(Running.cmd, Running.timeout)>>

\* the awaited process is cut off by its timeout: TimeoutExpired
ProcessTimesOut ==
    /\ pc \in {"discovery", "content", "sub"}
    /\ Catch("TimeoutExpired", timeout_text)
    /\ UNCHANGED <<genvars, FD_CMD, RG_CMD, tools, program, name, arguments, fd_result, rg_cmd,
                   files, results, spawned>>

\* subprocess.run cannot start the process: OSError
ProcessFailsToStart ==
    /\ pc \in {"discovery", "content", "sub"}
    /\ Catch("OSError", <<ErrorText(SpawnFailure)>>)
    /\ UNCHANGED <<genvars, FD_CMD, RG_CMD, tools, program, name, arguments, fd_result, rg_cmd,
                   files, results, spawned>>

\* rg exits
ContentExit(returncode, out, err) ==
    /\ pc = "content"
    /\ Return(content_output(returncode, out, err, files,
                             Get(arguments, "max_results", DefaultMaxResults)))
    /\ UNCHANGED <<genvars, FD_CMD, RG_CMD, tools, program, name, arguments, fd_result, rg_cmd,
                   files, results, spawned>>

\* one fd_exec sub-command exits; the loop goes on or ends
SubExit(out, err) ==
    /\ pc = "sub"
    /\ LET k == Len(spawned) - 1
       IN  /\ results' = IF out # "" \/ err # ""
                         THEN Append(results, FileOutput(files[k], out, err))
                         ELSE results
           /\ IF k < Len(files)
              THEN /\ Await("sub")
                   /\ spawned' = Append(spawned, SubCommand(k + 1))
              ELSE /\ Return(exec_output(results', files,
                          Get(arguments, "max_files", DefaultMaxResults)))
                   /\ UNCHANGED spawned
    /\ UNCHANGED <<genvars, FD_CMD, RG_CMD, tools, program, name, arguments, fd_result, rg_cmd,
                   files>>

\* mutant of Finish: results outlives the call, as a module-level list would
Finish_keeps_results ==
    /\ pc \in {"returned", "raised"}
    /\ pc' = "idle"
    /\ name' = ""
    /\ arguments' = EmptyDict
    /\ fd_result' = NoResult
    /\ caught' = NoException
    /\ rg_cmd' = <<>>
    /\ files' = <<>>
    /\ spawned' = <<>>
    /\ response' = <<>>
    /\ exception' = NoException
    /\ UNCHANGED <<genvars, FD_CMD, RG_CMD, tools, program, results>>

\* the handler is over: its result (or its exception) is with the framework
\* and the call's locals are gone
Finish ==
    /\ pc \in {"returned", "raised"}
    /\ pc' = "idle"
    /\ name' = ""
    /\ arguments' = EmptyDict
    /\ fd_result' = NoResult
    /\ caught' = NoException
    /\ rg_cmd' = <<>>
    /\ files' = <<>>
    /\ results' = <<>>
    /\ spawned' = <<>>
    /\ response' = <<>>
    /\ exception' = NoException
    /\ UNCHANGED <<genvars, FD_CMD, RG_CMD, tools, program>>

\* mutant of Main: main without its gate
main_ungated ==
    /\ program = Loaded
    /\ pc = "idle"
    /\ program' = Serving
    /\ UNCHANGED <<genvars, FD_CMD, RG_CMD, tools, pc, name, arguments, fd_result, caught,
                   rg_cmd, files, results, spawned, response, exception>>

\* main(), up to sys.exit(1) or to its entering run_server
Main ==
    /\ program = Loaded
    /\ pc = "idle"
    /\ program' = IF FD_CMD = None
                  THEN Program("exited", 1, InstallFdMessage)
                  ELSE Serving
    /\ UNCHANGED <<genvars, FD_CMD, RG_CMD, tools, pc, name, arguments, fd_result, caught,
                   rg_cmd, files, results, spawned, response, exception>>

\* the client closes the streams: run_server returns, and main with it
ServerEnds ==
    /\ program = Serving
    /\ pc = "idle"
    /\ program' = Program("exited", 0, "")
    /\ UNCHANGED <<genvars, FD_CMD, RG_CMD, tools, pc, name, arguments, fd_result, caught,
                   rg_cmd, files, results, spawned, response, exception>>

Next ==
    \/ Main
    \/ ServerEnds
    \/ ListTools
    \/ \E n \in ToolNames : \E a \in ArgsFor(n) : CallTool(n, a)
    \/ \E raw \in Stdouts : \E stderr \in Stderrs : DiscoveryExit(raw, stderr)
    \/ ProcessTimesOut
    \/ ProcessFailsToStart
    \/ \E returncode \in 0..2 : \E out \in {"", "match"} : \E err \in {"", "rg: error"} :
          ContentExit(returncode, out, err)
    \/ \E o \in SubOutputs : SubExit(o[1], o[2])
    \/ Finish

Spec == Init /\ [][Next]_vars

(***************************************************************************)
(* The command builders alone: a request is drawn from the filter          *)
(* combinations its tool accepts, and dispatched.                          *)
(***************************************************************************)
FiveTools == {"fd_search", "fd_search_content", "fd_exec", "fd_recent_files",
              "fd_count"}

Bools(key) == With(key, {TRUE})
TypeAndExtension == Merge(With("type", {"f"}), With("extension", {"py", ""}))

FilterArgs(n) ==
    CASE n = "fd_search" ->
            Merge(Merge(Merge(Bools("hidden"), Bools("no_ignore")),
                        Merge(Bools("case_sensitive"), Bools("absolute_path"))),
                  Merge(Merge(TypeAndExtension, With("max_depth", {0, 1})),
                        Merge(With("exclude", {"*.pyc"}), With("pattern", {"test"}))))
      [] n = "fd_search_content" ->
            Merge(Merge({"search_pattern" :> "TODO"},
                        Merge(Bools("hidden"), Bools("no_ignore"))),
                  Merge(Merge(Bools("case_sensitive"), With("context_lines", {0, 2})),
                        TypeAndExtension))
      [] n = "fd_exec" ->
            Merge(Merge({"command" :> <<"wc -l ", "{}">>},
                        Merge(Bools("hidden"), Bools("no_ignore"))),
                  TypeAndExtension)
      [] n = "fd_recent_files" ->
            Merge(With("hours", {1}), TypeAndExtension)
      [] n = "fd_count" ->
            Merge(Merge(With("pattern", {"test"}), Bools("hidden")), TypeAndExtension)

InitCmd ==
    /\ FD_CMD \in {None, "fd"}
    /\ RG_CMD \in {None, "rg"}
    /\ GeneratorNotRun
    /\ tools = {}
    /\ program = Loaded
    /\ pc = "idle"
    /\ name \in FiveTools
    /\ arguments \in FilterArgs(name)
    /\ fd_result = NoResult
    /\ caught = NoException
    /\ rg_cmd = <<>>
    /\ files = <<>>
    /\ results = <<>>
    /\ spawned = <<>>
    /\ response = <<>>
    /\ exception = NoException

\* the request is dispatched
Dispatch == CallTool(name, arguments)

SpecCmd == InitCmd /\ [][Dispatch]_vars

(***************************************************************************)
(* Properties.                                                             *)
(***************************************************************************)
Finished == pc \in {"returned", "raised"}

\* the cap of the current call: max_results or max_files, or its default
Cap ==
    CASE name = "fd_exec" -> Get(arguments, "max_files", DefaultMaxResults)
      [] name = "fd_recent_files" ->
            Get(arguments, "max_results", DefaultRecentMaxResults)
      [] OTHER -> Get(arguments, "max_results", DefaultMaxResults)

\* the lines of the discovery output
Discovered == StripSplit(fd_result.stdout)

IsLine(x) == x.k = "line"
IsMoreNote(x) == x.k = "more"
IsSearchedNote(x) == x.k = "searched"
IsFileOutput(x) == x.k = "file_output"

\* C1: for each of the five tools, a call made while the binary it needs is
\* missing (FD_CMD unset; for fd_search_content also RG_CMD unset) ends with
\* no exception leaving call_tool and with one of the fixed texts that name
\* the missing binary as its response, whatever the arguments.
C1_MissingDependencyError ==
    (/\ Finished
     /\ name \in FiveTools
     /\ (FD_CMD = None \/ (name = "fd_search_content" /\ RG_CMD = None)))
    => /\ exception = NoException
       /\ pc = "returned"
       /\ response \in {<<ErrorText(NoFdMessage)>>, <<Lit(NoRgMessage)>>}

\* C2: whatever the tool name, the arguments and the outcome of the spawned
\* processes, call_tool ends by returning one non-empty text; no exception
\* leaves it.
C2_AlwaysOneText ==
    Finished => (pc = "returned" /\ exception = NoException /\ response # <<>>)

\* a cap below 0 allows nothing
AtMost == IF Cap < 0 THEN 0 ELSE Cap

\* C3: run_fd (fd_search, fd_recent_files), the discovery process having
\* exited with L lines: if L > max_results the response holds exactly the
\* first max_results lines (none for a max_results below 0), then one note
\* whose count plus the lines returned is L; otherwise it holds all L lines
\* and no note.
C3_RunFdTruncation ==
    (pc = "returned" /\ name \in {"fd_search", "fd_recent_files"} /\ fd_result.done)
    => LET shown == SelectSeq(response, IsLine)
           notes == SelectSeq(response, IsMoreNote)
       IN  IF Len(Discovered) > Cap
           THEN /\ shown = Join(SubSeq(Discovered, 1, AtMost))
                /\ Len(notes) = 1
                /\ Len(shown) + notes[1].n = Len(Discovered)
                /\ SubSeq(response, 1, AtMost + 1) = shown \o notes
           ELSE /\ shown = Join(Discovered)
                /\ notes = <<>>

\* how many times flag occurs in cmd
Count(cmd, flag) == Cardinality({i \in DOMAIN cmd : cmd[i] = flag})

\* the options call_tool passes on to the discovery command of tool n
Accepted(n) ==
    CASE n = "fd_search" ->
            {"hidden", "no_ignore", "case_sensitive", "absolute_path", "type",
             "extension", "max_depth", "exclude"}
      [] n \in {"fd_search_content", "fd_exec"} ->
            {"hidden", "no_ignore", "type", "extension"}
      [] n = "fd_recent_files" -> {"type", "extension"}
      [] n = "fd_count" -> {"hidden", "type", "extension"}

Switches == {"hidden", "no_ignore", "case_sensitive", "absolute_path"}
Valued == {"type", "extension", "max_depth", "exclude"}
FlagOf(o) ==
    CASE o = "hidden" -> "--hidden"
      [] o = "no_ignore" -> "--no-ignore"
      [] o = "case_sensitive" -> "--case-sensitive"
      [] o = "absolute_path" -> "--absolute-path"
      [] o = "type" -> "--type"
      [] o = "extension" -> "--extension"
      [] o = "max_depth" -> "--max-depth"
      [] o = "exclude" -> "--exclude"

\* option o is supplied in the dict a: a switch is on, a string is not
\* empty, a depth is any integer
Supplied(a, o) ==
    /\ o \in DOMAIN a
    /\ o \in Switches => a[o] = TRUE
    /\ o \in {"type", "extension", "exclude"} => a[o] # ""

\* the value that follows the flag of option o
ValueOf(a, o) == IF o = "max_depth" THEN Str(a[o]) ELSE a[o]

\* the positional pattern of the discovery command of tool n
PatternOf(n, a) ==
    CASE n = "fd_search_content" -> Get(a, "file_pattern", "")
      [] n = "fd_recent_files" -> ""
      [] OTHER -> Get(a, "pattern", "")

C5_CountEqualsNonEmptyLines ==
    (pc = "returned" /\ name = "fd_count" /\ fd_result.done)
    => response = <<FoundText(Cardinality(
           {i \in DOMAIN fd_result.stdout : fd_result.stdout[i] # ""}))>>

\* C5 witness: fd_count returned for an output of MaxLines lines with an
\* empty line between two paths.
C5_Witness ==
    /\ pc = "returned"
    /\ name = "fd_count"
    /\ fd_result.done
    /\ Len(fd_result.stdout) = MaxLines
    /\ \E i \in 2..(MaxLines - 1) : fd_result.stdout[i] = ""
    /\ fd_result.stdout[1] # "" /\ fd_result.stdout[MaxLines] # ""
    /\ response = <<FoundText(MaxLines - 1)>>

RgPaths ==
    SubSeq(Running.cmd,
           Len(content_rg_cmd(arguments["search_pattern"],
                              Get(arguments, "case_sensitive", FALSE),
                              Get(arguments, "context_lines", 0))) + 1,
           Len(Running.cmd))

Min(x, y) == IF x < y THEN x ELSE y

\* C7: while the content search runs, the discovery process has exited with
\* at least one file, and rg's paths are the first min(max_results, n) of
\* the n discovered files, never none.
C7_ContentSearchRestricted ==
    pc = "content"
    => /\ fd_result.done
       /\ Len(Discovered) >= 1
       /\ RgPaths = SubSeq(Discovered, 1, Min(AtMost, Len(Discovered)))
       /\ RgPaths # <<>>

\* C8: fd_search_content called with a max_results of 1 or more, rg having
\* exited with any return code: the response holds the note "searched
\* max_results of n files" exactly when more files were discovered than
\* max_results.
C8_TruncationNoteWheneverCut ==
    (/\ pc = "returned"
     /\ name = "fd_search_content"
     /\ Len(spawned) = 2
     /\ caught = NoException
     /\ Cap >= 1)
    => LET notes == SelectSeq(response, IsSearchedNote)
       IN  IF Len(files) > Cap
           THEN notes = <<SearchedNote(Cap, Len(files))>>
           ELSE notes = <<>>

\* C9: fd_exec: the sub-commands started are at most max_files (none for a
\* max_files below 0) and at most the discovered files; the k-th is the command with every {} replaced by
\* the k-th discovered path; and the response of a call that ran
\* sub-commands holds the outputs collected from them, in order.
C9_ExecBoundedAndComplete ==
    (name = "fd_exec" /\ fd_result.done)
    => /\ Len(spawned) - 1 <= AtMost
       /\ Len(spawned) - 1 <= Len(Discovered)
       /\ \A k \in 1..(Len(spawned) - 1) :
             spawned[k + 1].cmd = Replace(arguments["command"], Discovered[k])
       /\ (pc = "returned" /\ Len(spawned) > 1)
             => SelectSeq(response, IsFileOutput) = results

\* C10: a call that ended because a process was cut off by its timeout
\* returns the timed-out message alone, and the seconds it names are the
\* timeout that process was started with.
C10_TimeoutMessage ==
    (pc = "returned" /\ caught = "TimeoutExpired")
    => /\ Len(response) = 1
       /\ response[1].k = "timed_out"
       /\ response[1].n = Running.timeout

\* C10 witness: an fd_exec sub-command timed out after an earlier one had
\* produced output.
C10_Witness ==
    /\ pc = "returned"
    /\ caught = "TimeoutExpired"
    /\ name = "fd_exec"
    /\ Len(spawned) = 3
    /\ results # <<>>
    /\ response = <<TimedOut(Running.cmd, SubCommandTimeout)>>

\* the strings of every segment of a text
Strings(text) == UNION {{text[i].s[j] : j \in DOMAIN text[i].s} : i \in DOMAIN text}

\* C11: in every tool, a discovery process that exited with diagnostic
\* text on its error stream and no result line makes the response hold
\* that text; the response is not a plain empty result.
C11_DiscoveryDiagnosticReported ==
    (/\ pc = "returned"
     /\ name \in FiveTools
     /\ fd_result.done
     /\ Discovered = <<>>
     /\ fd_result.stderr # ""
     /\ Len(spawned) = 1)
    => /\ fd_result.stderr \in Strings(response)
       /\ response \notin {<<Lit("No files found.")>>,
                           <<Lit("No files found matching the file pattern.")>>,
                           <<FoundText(0)>>}

IsLimitNote(x) == x.k = "limit"

\* C15: fd_exec, all processes of the call having exited, with a max_files
\* of at least 1: the response holds the limit note exactly when more
\* files were discovered than max_files, whether or not a sub-command
\* produced output; with max_files files or fewer discovered it holds none.
C15_LimitNoteExactlyWhenCut ==
    (/\ pc = "returned"
     /\ name = "fd_exec"
     /\ caught = NoException
     /\ fd_result.done
     /\ Cap >= 1)
    => (SelectSeq(response, IsLimitNote) # <<>>) <=> (Len(Discovered) > Cap)

IsErrorText(x) == x.k \in {"timed_out", "error"}

\* the state part of C16
C16_Order ==
    name = "fd_exec"
    => /\ Len(spawned) >= 2 => fd_result.done
       /\ Len(spawned) - 1 <= Len(files)
       /\ \A k \in 1..Len(files) : files[k] = Discovered[k]
       /\ \A k \in 1..(Len(spawned) - 1) :
             spawned[k + 1] = Process(Replace(arguments["command"], files[k]),
                                      SubCommandTimeout)
       /\ (pc = "returned" /\ caught # NoException)
             => /\ Len(response) = 1
                /\ IsErrorText(response[1])

\* the step part of C16
C16_Step ==
    /\ (name' = "fd_exec" /\ Len(spawned') > Len(spawned))
          => /\ Len(spawned') = Len(spawned) + 1
             /\ pc \in {"idle", "discovery", "sub"}
             /\ pc = "idle" => spawned = <<>>
             /\ pc # "idle" => caught' = NoException /\ fd_result'.done
    /\ (name = "fd_exec" /\ caught # NoException)
          => spawned' = <<>> /\ pc' = "idle"

\* C16: fd_exec starts no sub-command before the discovery process has
\* exited; it starts the sub-commands one per step, the k-th for the k-th
\* discovered path, the next only in the step in which the one before
\* exits; once a process of the call raised, no further sub-command is
\* started and the response is the error text alone, without the outputs
\* collected before.
C16_ExecSequentialAndFailFast == []C16_Order /\ [][C16_Step]_vars

\* C16 witness: the second of three sub-commands raised after the first
\* had produced output; the third was never started.
C16_Witness ==
    /\ pc = "returned"
    /\ name = "fd_exec"
    /\ caught # NoException
    /\ results # <<>>
    /\ Len(files) = 3
    /\ Len(spawned) = 3
    /\ response = <<ErrorText(SpawnFailure)>>

\* the awaited process ends: it exits, is cut off, or could not be started
ProcessEnds ==
    \/ \E raw \in Stdouts : \E stderr \in Stderrs : DiscoveryExit(raw, stderr)
    \/ \E returncode \in 0..2 : \E out \in {"", "match"} : \E err \in {"", "rg: error"} :
          ContentExit(returncode, out, err)
    \/ \E o \in SubOutputs : SubExit(o[1], o[2])
    \/ ProcessTimesOut
    \/ ProcessFailsToStart

\* every subprocess.run returns or raises
SpecFair == Spec /\ WF_vars(ProcessEnds)

Awaiting == pc \in {"discovery", "content", "sub"}

\* the most processes the claim allows the current call
MostProcesses ==
    CASE name = "fd_search_content" -> 2
      [] name = "fd_exec" -> 1 + AtMost
      [] OTHER -> 1

\* C12: every process of a call is started with a timeout, 30 seconds for
\* fd and rg and 10 seconds for an fd_exec sub-command, and a call starts
\* at most 1 process (fd_search, fd_recent_files, fd_count), 2
\* (fd_search_content) or 1 + max_files (fd_exec; 1 for a max_files below
\* 0).
C12_BoundedTimedProcesses ==
    name \in FiveTools
    => /\ \A k \in DOMAIN spawned :
             spawned[k].timeout =
                 IF name = "fd_exec" /\ k >= 2 THEN SubCommandTimeout
                 ELSE ProcessTimeout
       /\ Len(spawned) <= MostProcesses

\* C12, the part that holds: a call that waits for a process ends, every
\* process ending.
C12_EveryCallEnds == Awaiting ~> Finished

\* the state part of C18
C18_Gate ==
    /\ program.at = "serving" => FD_CMD # None
    /\ (program.at = "exited" /\ FD_CMD = None)
          => program.status = 1 /\ program.stderr = InstallFdMessage
    /\ (program.at = "serving" /\ pc # "idle")
          => /\ FD_CMD # None
             /\ exception # "RuntimeError"
             /\ caught # "TypeError"

\* the step part of C18
C18_Step ==
    (program = Loaded /\ program' # program)
    => program' = IF FD_CMD = None
                  THEN Program("exited", 1, InstallFdMessage)
                  ELSE Serving

\* C18: main does not enter run_server when fd was not detected: it
\* writes that fd is missing to stderr and exits with status 1; when fd was
\* detected it enters run_server, with or without rg; so every tool call
\* of a server started by main is made with FD_CMD set, and none of them
\* meets the missing-fd RuntimeError or TypeError.
C18_StartupGate == []C18_Gate /\ [][C18_Step]_vars

\* C18 witness: a server started by main without rg has answered a search.
C18_Witness ==
    /\ program = Serving
    /\ RG_CMD = None
    /\ pc = "returned"
    /\ name = "fd_search"
    /\ fd_result.done

\* between calls nothing of a call is left
C13_NothingLeft ==
    pc = "idle"
    => /\ name = ""
       /\ arguments = EmptyDict
       /\ fd_result = NoResult
       /\ caught = NoException
       /\ rg_cmd = <<>>
       /\ files = <<>>
       /\ results = <<>>
       /\ spawned = <<>>
       /\ response = <<>>
       /\ exception = NoException

\* C13: no step of a tool call changes FD_CMD or RG_CMD, and every call
\* starts from the state the first call started from: between calls the
\* server holds nothing of the calls before, so a call's response can
\* depend only on its name, its arguments and what its processes did.
C13_CallsIndependent ==
    /\ []C13_NothingLeft
    /\ [][FD_CMD' = FD_CMD /\ RG_CMD' = RG_CMD]_vars

\* C13 witness: a served fd_exec call, made after list_tools, has returned
\* the outputs of two sub-commands.
C13_Witness ==
    /\ pc = "returned"
    /\ program = Serving
    /\ tools # {}
    /\ name = "fd_exec"
    /\ caught = NoException
    /\ Len(results) = 2
    /\ FD_CMD = "fd"
    /\ RG_CMD = "rg"

(***************************************************************************)
(* benchmark/generate_files.py: the generator of the benchmark's test      *)
(* files.                                                                  *)
(***************************************************************************)
MinFiles == 100
MaxFiles == 199
LegacyPercent == 60

\* the factors 0.15, 0.05, ... of the first 15 categories, in hundredths
Percent == <<15, 5, 15, 10, 5, 5, 5, 10, 8, 4, 3, 10, 3, 1, 1>>

\* int(n * p) for the factor p = hundredths / 100: the double product,
\* truncated toward zero.  For the factors of the program and every n up
\* to 300000 it is the truncated exact product.
int(n, hundredths) ==
    IF n * hundredths >= 0
    THEN (n * hundredths) \div 100
    ELSE -((-(n * hundredths)) \div 100)

RECURSIVE SumTo(_, _)
\* a[1] + ... + a[k]
SumTo(a, k) == IF k = 0 THEN 0 ELSE a[k] + SumTo(a, k - 1)

\* the first 15 counts, in order
Allocated(n) == [j \in DOMAIN Percent |-> int(n, Percent[j])]
total_allocated(n) == SumTo(Allocated(n), Len(Percent))

\* mutant of integration_tests_of: the rest is split by factors of its own
integration_tests_rounded(rest, legacy) == int(rest, 100 - LegacyPercent)

\* integration_tests = remaining - legacy_files
integration_tests_of(rest, legacy) == rest - legacy

\* the 17 counts for a file_count of n
Distribution(n) ==
    LET rest == n - total_allocated(n)
        legacy == int(rest, LegacyPercent)
    IN  [c \in DOMAIN NoCounts |->
            CASE c = "legacy_files" -> legacy
              [] c = "integration_tests" -> integration_tests_of(rest, legacy)
              [] OTHER -> Allocated(n)[CHOOSE j \in DOMAIN Percent : Categories[j] = c]]

Dirs == {"src", "tests", "docs", "config", "scripts", "lib", "examples"}

\* the directory, the stem and the extension of each category's paths
PathDirs ==
    <<"src", "src", "tests", "src", "src", "config", "config", "docs", "scripts",
      "lib", "lib", "examples", "src", "config", "docs", "src", "tests">>
PathExts ==
    <<"py", "py", "py", "js", "js", "json", "yaml", "md", "sh", "py", "js", "py",
      "txt", "env", "md", "py", "py">>

\* mutant of PathStems: the README files are named as the doc files are
PathStems_readme_as_doc ==
    <<"module", "helper", "test_module", "component", "util", "config",
      "settings", "doc", "script", "library", "common", "example", "data", "env",
      "doc", "legacy", "integration_test">>

PathStems ==
    <<"module", "helper", "test_module", "component", "util", "config",
      "settings", "doc", "script", "library", "common", "example", "data", "env",
      "README", "legacy", "integration_test">>

\* the path the loop of category number c writes for its i
PathOf(c, i) == Path(PathDirs[c], PathStems[c], i, PathExts[c])

\* the number of the next category after c whose `if ... > 0` holds, or 18
NextCategory(c, cs) ==
    LET later == {j \in DOMAIN Categories : j > c /\ cs[Categories[j]] > 0}
    IN  IF later = {} THEN Len(Categories) + 1
        ELSE CHOOSE j \in later : \A l \in later : j <= l

\* a test_data directory left by an earlier run
StaleTree ==
    Tree(TRUE, {"src", "docs"},
         {Path("src", "module", 1, "py"), Path("docs", "notes", 1, "md")})

\* the server module plays no part in a run of the generator
ServerNotRun ==
    /\ FD_CMD = None
    /\ RG_CMD = None
    /\ tools = {}
    /\ program = Loaded
    /\ pc = "idle"
    /\ name = ""
    /\ arguments = EmptyDict
    /\ fd_result = NoResult
    /\ caught = NoException
    /\ rg_cmd = <<>>
    /\ files = <<>>
    /\ results = <<>>
    /\ spawned = <<>>
    /\ response = <<>>
    /\ exception = NoException

\* the values of -n the runs are started with
FileCounts == (MinFiles - 2)..MaxFiles

InitGen ==
    /\ ServerNotRun
    /\ step = "start"
    /\ file_count \in FileCounts
    /\ test_data \in {NoTree, StaleTree}
    /\ counts = NoCounts
    /\ remaining = 0
    /\ category = 0
    /\ index = 0
    /\ count = 0
    /\ actual_count = 0

\* main: if file_count < 100: print the error; sys.exit(1)
CheckFileCount ==
    /\ step = "start"
    /\ step' = IF file_count < MinFiles THEN "exit_1" ELSE "setup"
    /\ UNCHANGED <<srvvars, file_count, test_data, counts, remaining, category,
                   index, count, actual_count>>

\* main: rmtree of an existing test_data, mkdir of the seven directories,
\* the distribution, count = 0, up to the first loop that runs
Setup ==
    /\ step = "setup"
    /\ test_data' = Tree(TRUE, Dirs, {})
    /\ counts' = Distribution(file_count)
    /\ remaining' = file_count - total_allocated(file_count)
    /\ count' = 0
    /\ category' = NextCategory(0, counts')
    /\ index' = 1
    /\ step' = IF category' > Len(Categories) THEN "verify" ELSE "writing"
    /\ UNCHANGED <<srvvars, file_count, actual_count>>

\* create_file(filepath, content): open(filepath, 'w') and write
create_file(filepath) ==
    /\ filepath.dir \in test_data.dirs
    /\ test_data' = [test_data EXCEPT !.files = @ \cup {filepath}]

\* one turn of the running loop: create_file, count += 1, and on to the
\* next i or the next loop
WriteFile ==
    /\ step = "writing"
    /\ create_file(PathOf(category, index))
    /\ count' = count + 1
    /\ IF index < counts[Categories[category]]
       THEN /\ index' = index + 1
            /\ UNCHANGED <<category, step>>
       ELSE /\ category' = NextCategory(category, counts)
            /\ index' = 1
            /\ step' = IF category' > Len(Categories) THEN "verify" ELSE "writing"
    /\ UNCHANGED <<srvvars, file_count, counts, remaining, actual_count>>

\* main: the files find reports under test_data are counted
Verify ==
    /\ step = "verify"
    /\ actual_count' = Cardinality(test_data.files)
    /\ step' = "done"
    /\ UNCHANGED <<srvvars, file_count, test_data, counts, remaining, category,
                   index, count>>

NextGen ==
    \/ CheckFileCount
    \/ Setup
    \/ WriteFile
    \/ Verify

SpecGen == InitGen /\ [][NextGen]_vars

\* the distribution has been computed
Distributed == step \in {"writing", "verify", "done"}

\* C14: for every file_count of at least 100 the 17 category counts add
\* up to file_count, and each of them, the remainder and the two counts
\* derived from it included, is 0 or more.
C14_CountsSumToTarget ==
    Distributed
    => /\ file_count >= MinFiles
       /\ SumTo([j \in DOMAIN Categories |-> counts[Categories[j]]],
                Len(Categories)) = file_count
       /\ \A c \in DOMAIN counts : counts[c] >= 0
       /\ remaining >= 0
       /\ counts["legacy_files"] + counts["integration_tests"] = remaining

\* C14 witness: a distribution with a remainder that feeds both derived
\* categories.
C14_Witness ==
    /\ Distributed
    /\ counts["legacy_files"] > 0
    /\ counts["integration_tests"] > 0
    /\ file_count > MinFiles

\* the state part of C17
C17_Files ==
    /\ Distributed => Cardinality(test_data.files) = count
    /\ step \in {"verify", "done"} => count = file_count
    /\ step = "done" => actual_count = file_count
    /\ file_count < MinFiles => step \in {"start", "exit_1"}
    /\ step = "exit_1" => file_count < MinFiles

\* the step part of C17
C17_Step ==
    /\ count' > count => PathOf(category, index) \notin test_data.files
    /\ file_count < MinFiles => test_data' = test_data /\ count' = count

\* C17: for a file_count of at least 100 no write goes to a path written
\* before, so the files in test_data are as many as count at every moment
\* and as many as file_count at the end; for a file_count below 100 the
\* run ends in exit status 1 with test_data, an existing one included,
\* untouched and no file created.
C17_DistinctPathsAndEarlyExit == []C17_Files /\ [][C17_Step]_vars

\* C17 witness: a run over an existing test_data has ended with as many
\* files as asked for.
C17_Witness ==
    /\ step = "done"
    /\ file_count > MinFiles
    /\ count = file_count
    /\ Cardinality(test_data.files) = file_count
    /\ Path("docs", "notes", 1, "md") \notin test_data.files

====
